---- MODULE Spec2Model ----
(***************************************************************************)
(* A model of metro/tools/run_metro_bodymesh_backbone.py: the training and *)
(* evaluation script of the mesh reconstruction transformer.               *)
(*                                                                         *)
(* One process of the (possibly distributed) job is modelled; whether it   *)
(* is the main process is an input (mainProc).  The tensors themselves are *)
(* not modelled as numbers, only which iteration they belong to, except in *)
(* the loss functions, which are evaluated on small integer tensors.       *)
(***************************************************************************)
EXTENDS Integers, Sequences, FiniteSets, TLC

(***************************************************************************)
(* Bounds of the model.                                                    *)
(***************************************************************************)
MaxIter == 5          \* largest len(train_dataloader)
MaxEpochs == 3        \* largest --num_train_epochs
MaxValLen == 2        \* len(val_dataloader)
MaxMetric == 1        \* validation metrics range over 0..MaxMetric
MaxFaults == 1        \* failing trials injected into one save_checkpoint call of run
MaxNumTrial == 3      \* largest num_trial of a direct save_checkpoint call
MaxBatch == 3         \* largest batch size handed to loss_da
MaxSamples == 2       \* largest batch size handed to keypoint_2d_loss
MaxWorld == 2         \* largest number of ranks of a distributed run
MaxDistIter == 2      \* largest len(train_dataloader) of a rank of a distributed run

(***************************************************************************)
(* Program constants.                                                      *)
(***************************************************************************)
DefaultNumTrial == 10         \* save_checkpoint(..., num_trial=10)
LrDefault == 10000            \* --lr default 1e-4, in units of 1e-8
LoggingStepsDefault == 1000   \* --logging_steps default
LoggingStepsSmall == 500      \* args.logging_steps when iters_per_epoch < 1000
SmallEpochIters == 1000       \* the threshold of that test
PeriodicSaveEpochs == 5       \* iteration % (iters_per_epoch*5)
NumParamGroups == 1           \* Adam built from one list of parameters

VARIABLES
    pc,               \* position of the process in the script
    args,             \* the parsed command line (the fields the script reads)
    mainProc,         \* is_main_process()
    trainLoader,      \* len(train_dataloader), or NotBuilt
    valLoader,        \* len(val_dataloader), or NotBuilt
    max_iter,         \* run: max_iter
    iters_per_epoch,  \* run: iters_per_epoch
    iteration,        \* run: iteration
    epoch,            \* run: epoch
    param_groups,     \* optimizer.param_groups[g]['lr']
    mode,             \* METRO_model.training: "train" or "eval"
    log_eval_metrics, \* run: log_eval_metrics
    vi,               \* run_validate: batches of val_loader consumed
    vret,             \* run_validate: its caller
    batchOf,          \* iteration whose batch images/annotations are bound to
    predOf,           \* iteration whose outputs pred_* are bound to
    reads,            \* tensor reads made so far
    trace,            \* events so far, in order, of the current iteration or,
                      \* once the loop is left, of what follows it
    num_trial,        \* the num_trial save_checkpoint is called with
    svRet,            \* value the last save_checkpoint call returned
    ckptDir,          \* the checkpoint directory mkdir made last
    ckptFiles,        \* the files in it
    lossIn,           \* a part of the script run on its own: what it is given
    lossOut           \* a part of the script run on its own: what it has made

progVars == <<pc, args, mainProc, trainLoader, valLoader, max_iter, iters_per_epoch,
              iteration, epoch, param_groups, mode, log_eval_metrics, vi, vret,
              batchOf, predOf, reads, trace>>
saveVars == <<num_trial, svRet, ckptDir, ckptFiles>>
lossVars == <<lossIn, lossOut>>
vars == <<progVars, saveVars, lossVars>>

NotBuilt == -1
None == "None"
\* values of the type of a path: no directory, Python's None, not yet assigned
NoDir == <<>>
NonePath == <<"None">>
Undef == <<"undefined">>

(***************************************************************************)
(* Events.  An event is tagged with the iteration it belongs to and with   *)
(* the mode of the model when it happened; arg is what a log message       *)
(* prints.                                                                 *)
(***************************************************************************)
Event(it, ev) == [it |-> it, ev |-> ev, mode |-> mode, arg |-> 0]

Emit(it, ev) == trace' = Append(trace, Event(it, ev))

Emit2(it, ev1, ev2) == trace' = trace \o <<Event(it, ev1), Event(it, ev2)>>

(***************************************************************************)
(* save_checkpoint                                                         *)
(*                                                                         *)
(* A call writes in its own directory only, so of the disk the model keeps *)
(* the checkpoint directory made last and the files in it.  The output     *)
(* directory holds no checkpoint when main starts.  mkdir of a directory   *)
(* that exists changes nothing.                                            *)
(***************************************************************************)
ModelBin == "model.bin"
StateDictBin == "state_dict.bin"
TrainingArgsBin == "training_args.bin"

\* op.join(args.output_dir, 'checkpoint-{}-{}'.format(epoch, iteration))
CheckpointDir(output_dir, ep, it) == <<output_dir, "checkpoint", ep, it>>

\* lines 57-59: the files of a checkpoint, in the order they are written
WritesArgsFirst == <<TrainingArgsBin, ModelBin, StateDictBin>>

Writes == <<ModelBin, StateDictBin, TrainingArgsBin>>

\* `for i in range(num_trial)': is there another trial?
TrialsRemainOffByOne(i, n) == i <= n

TrialsRemain(i, n) == i < n

\* what a process that is not the main process returns
NotMainReturnNone(checkpoint_dir) == NonePath

NotMainReturn(checkpoint_dir) == checkpoint_dir

\* What the disk does to one call: raises[k] is the write (1, 2 or 3) that
\* raises in trial k; a trial past the end of raises has no failing write.
\* At most maxf trials of the call have one.  A process that is not the main
\* process writes nothing, and so meets no fault.
FaultPatterns(maxf) ==
    IF mainProc THEN UNION {[1..f -> 1..Len(Writes)] : f \in 0..maxf} ELSE {<<>>}

\* lines 57-59 of one trial: the writes before the one that raises (all of them
\* when none does)
Written(w) == IF w = 0 THEN Writes ELSE SubSeq(Writes, 1, w - 1)

FileSet(ws) == {ws[k] : k \in DOMAIN ws}

FileEvents(it, ws) == [k \in DOMAIN ws |-> Event(it, ws[k])]

\* lines 55-65: the for loop from trial i on: the files in the directory and the
\* events at its end
RECURSIVE SaveTrials(_, _, _, _, _, _)
SaveTrials(i, n, raises, it, files, events) ==
    IF ~TrialsRemain(i, n)
    THEN [files |-> files,
          events |-> Append(events, [Event(it, "log_failed") EXCEPT !.arg = n])]
    ELSE LET w == IF i + 1 \in DOMAIN raises THEN raises[i + 1] ELSE 0
             ws == Written(w)
             sofar == (events \o <<Event(it, "attempt")>>) \o FileEvents(it, ws)
         IN  IF w = 0
             THEN [files |-> files \cup FileSet(ws),
                   events |-> Append(sofar, Event(it, "log_saved"))]
             ELSE SaveTrials(i + 1, n, raises, it, files \cup FileSet(ws),
                             Append(sofar, Event(it, "write_raised")))

\* lines 48-66: save_checkpoint(model, args, epoch, iteration, num_trial) under
\* the fault pattern raises: the value returned, the checkpoint directory made
\* last and its files, and the events of the call
save_checkpoint(ep, it, n, raises) ==
    LET checkpoint_dir == CheckpointDir(args.output_dir, ep, it) IN
    IF ~mainProc
    THEN [value |-> NotMainReturn(checkpoint_dir), dir |-> ckptDir, files |-> ckptFiles,
          events |-> <<Event(it, "save_return")>>]
    ELSE LET before == IF ckptDir = checkpoint_dir THEN ckptFiles ELSE {}
             r == SaveTrials(0, n, raises, it, before, <<Event(it, "mkdir")>>)
         IN  [value |-> checkpoint_dir, dir |-> checkpoint_dir, files |-> r.files,
              events |-> Append(r.events, Event(it, "save_return"))]

\* the effect of a call on the state, but for its events
Saved(r) ==
    /\ svRet' = r.value
    /\ ckptDir' = r.dir
    /\ ckptFiles' = r.files

\* a direct call of save_checkpoint, every trial of which may fail
SaveCheckpoint ==
    /\ pc = "save_checkpoint"
    /\ \E raises \in FaultPatterns(num_trial) :
          LET r == save_checkpoint(epoch, iteration, num_trial, raises) IN
          /\ Saved(r)
          /\ trace' = trace \o r.events
    /\ pc' = "returned"
    /\ UNCHANGED <<args, mainProc, trainLoader, valLoader, max_iter, iters_per_epoch,
                   iteration, epoch, num_trial, param_groups, mode, log_eval_metrics,
                   vi, vret, batchOf, predOf, reads, lossIn, lossOut>>

(***************************************************************************)
(* The arguments and the state before main runs.                           *)
(***************************************************************************)
Args(run_eval_only, num_train_epochs) ==
    [run_eval_only |-> run_eval_only,
     num_train_epochs |-> num_train_epochs,
     logging_steps |-> LoggingStepsDefault,
     lr |-> LrDefault,
     output_dir |-> "output/"]

NoMetrics == [PAmPJPE |-> None, mPVE |-> None, mPJPE |-> None, epoch |-> None]

ProgInit(p, a, m, ep, it) ==
    /\ pc = p
    /\ args = a
    /\ mainProc = m
    /\ trainLoader = NotBuilt
    /\ valLoader = NotBuilt
    /\ max_iter = 0
    /\ iters_per_epoch = 0
    /\ iteration = it
    /\ epoch = ep
    /\ param_groups = <<>>
    /\ mode = "train"
    /\ log_eval_metrics = NoMetrics
    /\ vi = 0
    /\ vret = None
    /\ batchOf = 0
    /\ predOf = 0
    /\ reads = {}
    /\ trace = <<>>

NoLoss == [status |-> "none"]

LossIdle ==
    /\ lossIn = [fn |-> "none"]
    /\ lossOut = NoLoss

(***************************************************************************)
(* Helpers of run.                                                         *)
(***************************************************************************)
RECURSIVE Pow10(_)
Pow10(k) == IF k = 0 THEN 1 ELSE 10 * Pow10(k - 1)

\* line 183: max_iter // args.num_train_epochs
ItersPerEpoch(mi, num_train_epochs) == mi \div num_train_epochs

\* lines 184-185: args.logging_steps after run looked at iters_per_epoch
LoggingSteps(ipe, logging_steps) ==
    IF ipe < SmallEpochIters THEN LoggingStepsSmall ELSE logging_steps

\* line 240: epoch = iteration // iters_per_epoch
EpochOf(it, ipe) == it \div ipe

\* line 85: epoch // (args.num_train_epochs/2.0), a floor division by a
\* float that is a whole number of halves
HalfSchedulesNoHalving(ep, num_train_epochs) == ep \div num_train_epochs

HalfSchedules(ep, num_train_epochs) == (2 * ep) \div num_train_epochs

\* line 85: args.lr * (0.1 ** k), in units of 1e-8
AdjustedLr(lr, ep, num_train_epochs) ==
    lr \div Pow10(HalfSchedules(ep, num_train_epochs))

\* lines 86-87: every parameter group gets the rate
AdjustLearningRate(groups, ep, a) ==
    [g \in DOMAIN groups |-> AdjustedLr(a.lr, ep, a.num_train_epochs)]

\* line 384: is the progress of this iteration logged?
ShouldLogAlways(it, ipe, mi) == TRUE

ShouldLog(it, ipe, mi) == it % ipe = 0 \/ it = mi

\* line 431: is the model validated after this iteration?
ShouldValidateAlways(it, ipe) == TRUE

ShouldValidate(it, ipe) == it % ipe = 0

\* line 456: is a validation metric better than the recorded one?
ImprovedOrEqual(v, best) ==
    \/ v.PAmPJPE <= best.PAmPJPE
    \/ v.mPVE <= best.mPVE
    \/ v.mPJPE <= best.mPJPE

Improved(v, best) ==
    \/ v.PAmPJPE < best.PAmPJPE
    \/ v.mPVE < best.mPVE
    \/ v.mPJPE < best.mPJPE

\* line 459: iteration % (iters_per_epoch*5) == 0
PeriodicSave(it, ipe) == it % (ipe * PeriodicSaveEpochs) = 0

\* EvalMetricsLogger(): the recorded metrics start at a worst case
WorstMetric == 1

EvalMetricsLoggerInit ==
    [PAmPJPE |-> WorstMetric, mPVE |-> WorstMetric, mPJPE |-> WorstMetric, epoch |-> 0]

\* log_eval_metrics.update(val_mPVE, val_mPJPE, val_PAmPJPE, epoch)
EvalMetricsLoggerUpdate(v, ep) ==
    [PAmPJPE |-> v.PAmPJPE, mPVE |-> v.mPVE, mPJPE |-> v.mPJPE, epoch |-> ep]

\* what run_validate can return
ValMetrics ==
    [PAmPJPE : 0..MaxMetric, mPVE : 0..MaxMetric, mPJPE : 0..MaxMetric, epoch : {None}]

\* has optimizer.step of iteration it run?
StepDone(it) ==
    \E k \in DOMAIN trace : trace[k].it = it /\ trace[k].ev = "optimizer.step"

\* a read of the tensor bound to a loop variable
Read(name, owner, where) ==
    [name |-> name, owner |-> owner, at |-> iteration, where |-> where,
     post |-> StepDone(iteration)]

\* lines 416-421: what visualize_mesh is handed
Visualized ==
    {Read("annotations", batchOf, "visualize_mesh"),
     Read("pred_vertices", predOf, "visualize_mesh"),
     Read("pred_camera", predOf, "visualize_mesh"),
     Read("pred_2d_joints_from_smpl", predOf, "visualize_mesh")}

\* what the steps of main, run and run_validate may leave alone
LossKeeps == UNCHANGED lossVars
SaveIdle == UNCHANGED saveVars

(***************************************************************************)
(* main                                                                    *)
(***************************************************************************)
\* lines 731-868: set-up, then the evaluation branch builds the validation loader
MainEvalOnlyBuildsTrain ==
    /\ pc = "main"
    /\ args.run_eval_only
    /\ \E m \in 0..MaxIter : trainLoader' = m
    /\ \E v \in {MaxValLen} : valLoader' = v
    /\ pc' = "run_eval_general"
    /\ UNCHANGED <<args, mainProc, max_iter, iters_per_epoch, iteration,
                   epoch, param_groups, mode, log_eval_metrics, vi, vret,
                   batchOf, predOf, reads, trace>>
    /\ SaveIdle /\ LossKeeps

MainEvalOnly ==
    /\ pc = "main"
    /\ args.run_eval_only
    /\ \E v \in {MaxValLen} : valLoader' = v
    /\ pc' = "run_eval_general"
    /\ UNCHANGED <<args, mainProc, trainLoader, max_iter, iters_per_epoch, iteration,
                   epoch, param_groups, mode, log_eval_metrics, vi, vret,
                   batchOf, predOf, reads, trace>>
    /\ SaveIdle /\ LossKeeps

\* lines 731-863 and 870-875: set-up, then the training branch builds both loaders
MainTrain ==
    /\ pc = "main"
    /\ ~args.run_eval_only
    /\ \E m \in 0..MaxIter : trainLoader' = m
    /\ \E v \in {MaxValLen} : valLoader' = v
    /\ pc' = "run"
    /\ UNCHANGED <<args, mainProc, max_iter, iters_per_epoch, iteration,
                   epoch, param_groups, mode, log_eval_metrics, vi, vret,
                   batchOf, predOf, reads, trace>>
    /\ SaveIdle /\ LossKeeps

(***************************************************************************)
(* run_eval_general and run_validate                                       *)
(***************************************************************************)
\* lines 476-496: evaluation mode, then the call of run_validate
RunEvalGeneral ==
    /\ pc = "run_eval_general"
    /\ epoch' = 0
    /\ mode' = "eval"
    /\ vret' = "run_eval_general"
    /\ pc' = "run_validate"
    /\ UNCHANGED <<args, mainProc, trainLoader, valLoader, max_iter, iters_per_epoch,
                   iteration, param_groups, log_eval_metrics, vi,
                   batchOf, predOf, reads, trace>>
    /\ SaveIdle /\ LossKeeps

\* lines 505-513: the meters are reset and the model put in evaluation mode
RunValidate ==
    /\ pc = "run_validate"
    /\ mode' = "eval"
    /\ vi' = 0
    /\ pc' = "val_loop"
    /\ trace' = Append(trace, [Event(iteration, "run_validate") EXCEPT !.mode = "eval"])
    /\ UNCHANGED <<args, mainProc, trainLoader, valLoader, max_iter, iters_per_epoch,
                   iteration, epoch, param_groups, log_eval_metrics, vret,
                   batchOf, predOf, reads>>
    /\ SaveIdle /\ LossKeeps

\* lines 515-563: one batch of the validation loader: forward pass and errors
ValBatch ==
    /\ pc = "val_loop"
    /\ vi < valLoader
    /\ vi' = vi + 1
    /\ Emit(iteration, "val_forward")
    /\ UNCHANGED <<pc, args, mainProc, trainLoader, valLoader, max_iter, iters_per_epoch,
                   iteration, epoch, param_groups, mode, log_eval_metrics, vret,
                   batchOf, predOf, reads>>
    /\ SaveIdle /\ LossKeeps

\* lines 565-576 and 498-503: the metrics are gathered and returned to
\* run_eval_general, which logs them and returns to main
ValidateReturnEval ==
    /\ pc = "val_loop"
    /\ vi = valLoader
    /\ vret = "run_eval_general"
    /\ \E m \in ValMetrics :
          trace' = trace \o <<Event(iteration, "run_validate_end"),
                              [Event(iteration, "log_validation") EXCEPT !.arg = m]>>
    /\ pc' = "done"
    /\ UNCHANGED <<args, mainProc, trainLoader, valLoader, max_iter, iters_per_epoch,
                   iteration, epoch, param_groups, mode, log_eval_metrics, vi, vret,
                   batchOf, predOf, reads>>
    /\ SaveIdle /\ LossKeeps

\* lines 565-576 and 440-460: the metrics are gathered and returned to run, which
\* logs them, saves a checkpoint when one of them is better or five epochs have
\* passed, and in the first case records them
ValidateReturnRun ==
    /\ pc = "val_loop"
    /\ vi = valLoader
    /\ vret = "run"
    /\ \E m \in ValMetrics :
          LET validated == trace \o <<Event(iteration, "run_validate_end"),
                                      [Event(iteration, "log_validation") EXCEPT !.arg = m]>>
              calling == Append(validated, Event(iteration, "save_checkpoint"))
          IN  IF Improved(m, log_eval_metrics)
              THEN \E raises \in FaultPatterns(MaxFaults) :
                      LET r == save_checkpoint(epoch, iteration, num_trial, raises) IN
                      /\ Saved(r)
                      /\ log_eval_metrics' = EvalMetricsLoggerUpdate(m, epoch)
                      /\ trace' = (calling \o r.events)
                                  \o <<Event(iteration, "log_eval_metrics.update")>>
              ELSE IF PeriodicSave(iteration, iters_per_epoch)
              THEN \E raises \in FaultPatterns(MaxFaults) :
                      LET r == save_checkpoint(epoch, iteration, num_trial, raises) IN
                      /\ Saved(r)
                      /\ trace' = calling \o r.events
                      /\ UNCHANGED log_eval_metrics
              ELSE /\ trace' = validated
                   /\ UNCHANGED <<svRet, ckptDir, ckptFiles, log_eval_metrics>>
    /\ pc' = "loop"
    /\ UNCHANGED <<args, mainProc, trainLoader, valLoader, max_iter, iters_per_epoch,
                   iteration, epoch, num_trial, param_groups, mode, vi, vret,
                   batchOf, predOf, reads>>
    /\ LossKeeps

(***************************************************************************)
(* run                                                                     *)
(***************************************************************************)
\* lines 179-234: the schedule is derived from the loader, the optimizer built
\* and the model put in training mode
Run ==
    /\ pc = "run"
    /\ max_iter' = trainLoader
    /\ IF args.num_train_epochs = 0
       THEN /\ pc' = "crashed"
            /\ Emit(0, "ZeroDivisionError")
            /\ UNCHANGED <<args, iters_per_epoch, param_groups, log_eval_metrics>>
       ELSE /\ iters_per_epoch' = ItersPerEpoch(trainLoader, args.num_train_epochs)
            /\ args' = [args EXCEPT !.logging_steps =
                           LoggingSteps(iters_per_epoch', args.logging_steps)]
            /\ param_groups' = [g \in 1..NumParamGroups |-> args.lr]
            /\ log_eval_metrics' = EvalMetricsLoggerInit
            /\ pc' = "loop"
            /\ UNCHANGED trace
    /\ mode' = "train"
    /\ UNCHANGED <<mainProc, trainLoader, valLoader, iteration, epoch, vi, vret,
                   batchOf, predOf, reads>>
    /\ SaveIdle /\ LossKeeps

\* line 238: METRO_model.train(), from whatever mode the model is in
ModelTrainNotCalled(m) == m

ModelTrain(m) == "train"

\* lines 236-295: the next batch is drawn; training mode, the iteration and epoch
\* numbers, the learning rate, and the ground truth of the batch
LoopNext ==
    /\ pc = "loop"
    /\ iteration < max_iter
    /\ iteration' = iteration + 1
    /\ batchOf' = iteration + 1
    /\ mode' = ModelTrain(mode)
    /\ IF iters_per_epoch = 0
       THEN /\ pc' = "crashed"
            /\ trace' = <<[Event(iteration + 1, "ZeroDivisionError") EXCEPT !.mode = mode']>>
            /\ UNCHANGED <<epoch, param_groups, reads>>
       ELSE /\ epoch' = EpochOf(iteration + 1, iters_per_epoch)
            /\ param_groups' = AdjustLearningRate(param_groups, epoch', args)
            /\ reads' = reads \cup
                  {[name |-> n, owner |-> iteration + 1, at |-> iteration + 1,
                    where |-> "prepare", post |-> StepDone(iteration + 1)] :
                   n \in {"images", "annotations"}}
            /\ pc' = "forward"
            /\ trace' = <<[Event(iteration + 1, "batch") EXCEPT !.mode = mode']>>
    /\ UNCHANGED <<args, mainProc, trainLoader, valLoader, max_iter, iters_per_epoch,
                   log_eval_metrics, vi, vret, predOf>>
    /\ SaveIdle /\ LossKeeps

\* lines 297-326: the forward pass binds the outputs of the model
Forward ==
    /\ pc = "forward"
    /\ predOf' = iteration
    /\ reads' = reads \cup {Read("images", batchOf, "forward")}
    /\ Emit(iteration, "forward")
    /\ pc' = "loss"
    /\ UNCHANGED <<args, mainProc, trainLoader, valLoader, max_iter, iters_per_epoch,
                   iteration, epoch, param_groups, mode, log_eval_metrics, vi,
                   vret, batchOf>>
    /\ SaveIdle /\ LossKeeps

\* lines 328-374: the losses and their weighted sum
ComputeLoss ==
    /\ pc = "loss"
    /\ reads' = reads \cup {Read("annotations", batchOf, "loss"),
                            Read("pred_vertices", predOf, "loss"),
                            Read("pred_camera", predOf, "loss"),
                            Read("pred_2d_joints_from_smpl", predOf, "loss")}
    /\ Emit(iteration, "loss")
    /\ pc' = "zero_grad"
    /\ UNCHANGED <<args, mainProc, trainLoader, valLoader, max_iter, iters_per_epoch,
                   iteration, epoch, param_groups, mode, log_eval_metrics, vi,
                   vret, batchOf, predOf>>
    /\ SaveIdle /\ LossKeeps

\* what the three steps of the back propagation leave alone
BackPropKeeps ==
    /\ UNCHANGED <<args, mainProc, trainLoader, valLoader, max_iter, iters_per_epoch,
                   iteration, epoch, param_groups, mode, log_eval_metrics, vi,
                   vret, batchOf, predOf, reads>>
    /\ SaveIdle /\ LossKeeps

\* line 377
ZeroGrad ==
    /\ pc = "zero_grad"
    /\ Emit(iteration, "optimizer.zero_grad")
    /\ pc' = "backward"
    /\ BackPropKeeps

\* line 378
Backward ==
    /\ pc = "backward"
    /\ Emit(iteration, "loss.backward")
    /\ pc' = "step"
    /\ BackPropKeeps

\* line 379
OptimizerStepOmitted ==
    /\ pc = "step"
    /\ pc' = "log"
    /\ UNCHANGED trace
    /\ BackPropKeeps

OptimizerStep ==
    /\ pc = "step"
    /\ Emit(iteration, "optimizer.step")
    /\ pc' = "log"
    /\ BackPropKeeps

\* lines 381-429: the progress is logged and a batch visualized
LogProgress ==
    /\ pc = "log"
    /\ IF ShouldLog(iteration, iters_per_epoch, max_iter)
       THEN /\ reads' = reads \cup Visualized
            /\ IF mainProc
               THEN Emit2(iteration, "log_progress", "imwrite")
               ELSE Emit(iteration, "log_progress")
       ELSE UNCHANGED <<reads, trace>>
    /\ pc' = "validate?"
    /\ UNCHANGED <<args, mainProc, trainLoader, valLoader, max_iter, iters_per_epoch,
                   iteration, epoch, param_groups, mode, log_eval_metrics, vi,
                   vret, batchOf, predOf>>
    /\ SaveIdle /\ LossKeeps

\* lines 431-438: at the end of an epoch run_validate is called
Validate ==
    /\ pc = "validate?"
    /\ IF ShouldValidate(iteration, iters_per_epoch)
       THEN /\ pc' = "run_validate"
            /\ vret' = "run"
       ELSE /\ pc' = "loop"
            /\ UNCHANGED vret
    /\ UNCHANGED <<args, mainProc, trainLoader, valLoader, max_iter, iters_per_epoch,
                   iteration, epoch, param_groups, mode, log_eval_metrics, vi,
                   batchOf, predOf, reads, trace>>
    /\ SaveIdle /\ LossKeeps

\* lines 463-467: the loader is used up and the training time is logged
LoopEnd ==
    /\ pc = "loop"
    /\ iteration = max_iter
    /\ IF max_iter = 0
       THEN /\ pc' = "crashed"
            /\ trace' = <<Event(iteration, "ZeroDivisionError")>>
       ELSE /\ pc' = "last_save"
            /\ trace' = <<Event(iteration, "log_total_time")>>
    /\ UNCHANGED <<args, mainProc, trainLoader, valLoader, max_iter, iters_per_epoch,
                   iteration, epoch, param_groups, mode, log_eval_metrics,
                   vi, vret, batchOf, predOf, reads>>
    /\ SaveIdle /\ LossKeeps

\* lines 468-473: the last checkpoint is saved and the best results are logged;
\* run and main return
LastSaveOmitted ==
    /\ pc = "last_save"
    /\ trace' = Append(trace, Event(iteration, "log_best"))
    /\ pc' = "done"
    /\ UNCHANGED <<args, mainProc, trainLoader, valLoader, max_iter, iters_per_epoch,
                   iteration, epoch, num_trial, param_groups, mode, log_eval_metrics,
                   vi, vret, batchOf, predOf, reads>>
    /\ SaveIdle /\ LossKeeps

LastSave ==
    /\ pc = "last_save"
    /\ \E raises \in FaultPatterns(MaxFaults) :
          LET r == save_checkpoint(epoch, iteration, num_trial, raises) IN
          /\ Saved(r)
          /\ trace' = (Append(trace, Event(iteration, "last_save_checkpoint"))
                       \o r.events) \o <<Event(iteration, "log_best")>>
    /\ pc' = "done"
    /\ UNCHANGED <<args, mainProc, trainLoader, valLoader, max_iter, iters_per_epoch,
                   iteration, epoch, num_trial, param_groups, mode, log_eval_metrics,
                   vi, vret, batchOf, predOf, reads>>
    /\ LossKeeps

(***************************************************************************)
(* Spec: one process running main.                                         *)
(***************************************************************************)
Init ==
    /\ \E m \in BOOLEAN, e \in BOOLEAN, n \in 0..MaxEpochs : ProgInit("main", Args(e, n), m, 0, 0)
    /\ num_trial = DefaultNumTrial
    /\ svRet = Undef
    /\ ckptDir = NoDir
    /\ ckptFiles = {}
    /\ LossIdle

Next ==
    \/ MainEvalOnly
    \/ MainTrain
    \/ RunEvalGeneral
    \/ RunValidate
    \/ ValBatch
    \/ ValidateReturnEval
    \/ ValidateReturnRun
    \/ Run
    \/ LoopNext
    \/ Forward
    \/ ComputeLoss
    \/ ZeroGrad
    \/ Backward
    \/ OptimizerStep
    \/ LogProgress
    \/ Validate
    \/ LoopEnd
    \/ LastSave

Spec == Init /\ [][Next]_vars

(***************************************************************************)
(* loss_da                                                                 *)
(*                                                                         *)
(* outputs is a tensor whose first dimension is the batch; one logit per   *)
(* element of the batch is kept.  binary_cross_entropy_with_logits is not  *)
(* evaluated: a term of the loss is the logit, its target and whether the  *)
(* focal factor is applied, and the loss is the mean of the terms.         *)
(***************************************************************************)
Logits == {-1, 0, 1}

Uninit == "uninitialized"

\* line 163: assert B % 2 == 0
BatchIsEvenNotAsserted(B) == TRUE

BatchIsEven(B) == B % 2 = 0

\* targets[lo:hi] = v, with Python's 0-based, half-open slice
SliceAssign(t, lo, hi, v) ==
    [i \in DOMAIN t |-> IF lo < i /\ i <= hi THEN v ELSE t[i]]

\* how many of the two slice assignments write each element
SliceHits(B, lo, hi) == [i \in 1..B |-> IF lo < i /\ i <= hi THEN 1 ELSE 0]

\* lines 165-167
Targets(B) ==
    LET empty_like == [i \in 1..B |-> Uninit]
        source == SliceAssign(empty_like, 0, B \div 2, 0)
    IN  SliceAssign(source, B \div 2, B, 1)

\* lines 161-177
loss_da(outputs, use_focal) ==
    LET B == Len(outputs) IN
    IF ~BatchIsEven(B)
    THEN [status |-> "AssertionError"]
    ELSE LET targets == Targets(B) IN
         [status |-> "returned",
          targets |-> targets,
          labelled |-> [i \in 1..B |-> SliceHits(B, 0, B \div 2)[i]
                                       + SliceHits(B, B \div 2, B)[i]],
          terms |-> [i \in 1..B |-> [logit |-> outputs[i], target |-> targets[i],
                                     focal |-> use_focal]],
          mean_over |-> B]

LossKeepsProg ==
    UNCHANGED <<args, mainProc, trainLoader, valLoader, max_iter, iters_per_epoch,
                iteration, epoch, param_groups, mode, log_eval_metrics, vi, vret,
                batchOf, predOf, reads, trace, lossIn>>

\* a call of loss_da
LossDa ==
    /\ pc = "loss_da"
    /\ lossOut' = loss_da(lossIn.outputs, lossIn.use_focal)
    /\ pc' = IF lossOut'.status = "returned" THEN "returned" ELSE "raised"
    /\ LossKeepsProg
    /\ SaveIdle

InitLossDa ==
    /\ ProgInit("loss_da", Args(FALSE, 1), TRUE, 0, 0)
    /\ num_trial = DefaultNumTrial
    /\ svRet = Undef
    /\ ckptDir = NoDir
    /\ ckptFiles = {}
    /\ \E B \in 0..MaxBatch :
          lossIn \in [fn : {"loss_da"}, outputs : [1..B -> Logits], use_focal : BOOLEAN]
    /\ lossOut = NoLoss

SpecLossDa == InitLossDa /\ [][LossDa]_vars

(***************************************************************************)
(* keypoint_2d_loss                                                        *)
(*                                                                         *)
(* A sample has one joint, the joint one coordinate, 0 or 1, and its       *)
(* confidence, 0 or 1: the loss is elementwise, so a further joint or      *)
(* coordinate adds a term of the same form.  The criterion is              *)
(* MSELoss(reduction='none'), the squared difference of each element.  The *)
(* mean is kept as the sum of the terms and their number.                  *)
(***************************************************************************)
Coords == {0, 1}

Joints == {1}

\* line 120: conf = gt_keypoints_2d[:, :, -1]
Conf(gt) == [b \in DOMAIN gt |-> [k \in DOMAIN gt[b] |-> gt[b][k].conf]]

\* criterion_keypoints(pred_keypoints_2d, gt_keypoints_2d[:, :, :-1])
MSELossNone(pred, gt) ==
    [b \in DOMAIN gt |->
        [k \in DOMAIN gt[b] |-> (pred[b][k] - gt[b][k].x) * (pred[b][k] - gt[b][k].x)]]

RECURSIVE SumSeq(_)
SumSeq(q) == IF q = <<>> THEN 0 ELSE q[1] + SumSeq(Tail(q))

\* lines 115-122
keypoint_2d_loss(pred_keypoints_2d, gt_keypoints_2d, has_pose_2d) ==
    LET conf == Conf(gt_keypoints_2d)
        mse == MSELossNone(pred_keypoints_2d, gt_keypoints_2d)
        terms == [b \in DOMAIN mse |-> [k \in DOMAIN mse[b] |-> conf[b][k] * mse[b][k]]]
    IN  [status |-> "returned",
         terms |-> terms,
         sum |-> SumSeq([b \in DOMAIN terms |-> SumSeq(terms[b])]),
         mean_over |-> SumSeq([b \in DOMAIN terms |-> Cardinality(DOMAIN terms[b])])]

\* a call of keypoint_2d_loss
Keypoint2dLoss ==
    /\ pc = "keypoint_2d_loss"
    /\ lossOut' = keypoint_2d_loss(lossIn.pred, lossIn.gt, lossIn.has_pose_2d)
    /\ pc' = "returned"
    /\ LossKeepsProg
    /\ SaveIdle

InitKeypoint2d ==
    /\ ProgInit("keypoint_2d_loss", Args(FALSE, 1), TRUE, 0, 0)
    /\ num_trial = DefaultNumTrial
    /\ svRet = Undef
    /\ ckptDir = NoDir
    /\ ckptFiles = {}
    /\ \E B \in 1..MaxSamples :
          lossIn \in [fn : {"keypoint_2d_loss"},
                      pred : [1..B -> [Joints -> Coords]],
                      gt : [1..B -> [Joints -> [x : Coords, conf : {0, 1}]]],
                      has_pose_2d : [1..B -> {0, 1}]]
    /\ lossOut = NoLoss

SpecKeypoint2d == InitKeypoint2d /\ [][Keypoint2dLoss]_vars

(***************************************************************************)
(* keypoint_3d_loss and vertices_loss                                      *)
(*                                                                         *)
(* A pose has four joints of one coordinate, so that the joints 2 and 3,   *)
(* whose mean is the pelvis, exist; the coordinates are even, so that the  *)
(* mean is whole.  A mesh has one vertex of one coordinate.  A call of a   *)
(* criterion is recorded with the tensors it is handed.                    *)
(***************************************************************************)
PredPoses == {<<0, 0, 0, 0>>, <<2, 0, 2, 0>>}

GtPoses ==
    {[k \in 1..4 |-> [x |-> 0, conf |-> 1]],
     <<[x |-> 2, conf |-> 1], [x |-> 0, conf |-> 0],
       [x |-> 0, conf |-> 1], [x |-> 2, conf |-> 1]>>}

\* tensor[flag == 1]: the rows of the tensor whose flag is 1, in their order
RECURSIVE MaskRows(_, _)
MaskRows(t, flag) ==
    IF t = <<>> THEN <<>>
    ELSE (IF Head(flag) = 1 THEN <<Head(t)>> ELSE <<>>) \o MaskRows(Tail(t), Tail(flag))

\* lines 133 and 148: len(...) > 0
AnnotatedAlways(rows) == TRUE

Annotated(rows) == Len(rows) > 0

\* lines 134-137: (t[:, 2, :] + t[:, 3, :]) / 2 is taken from every joint
PelvisCentred(t) ==
    [b \in DOMAIN t |-> [k \in DOMAIN t[b] |-> t[b][k] - (t[b][3] + t[b][4]) \div 2]]

\* torch.FloatTensor(1).fill_(0.)
ZeroLoss == [status |-> "returned", criterion |-> <<>>, sum |-> 0, mean_over |-> 1]

\* lines 124-140
keypoint_3d_loss(pred_keypoints_3d, gt_keypoints_3d, has_pose_3d) ==
    LET conf_all == Conf(gt_keypoints_3d)
        gt_all == [b \in DOMAIN gt_keypoints_3d |->
                      [k \in DOMAIN gt_keypoints_3d[b] |-> gt_keypoints_3d[b][k].x]]
        gt == MaskRows(gt_all, has_pose_3d)
        conf == MaskRows(conf_all, has_pose_3d)
        pred == MaskRows(pred_keypoints_3d, has_pose_3d)
    IN  IF Annotated(gt)
        THEN LET g == PelvisCentred(gt)
                 p == PelvisCentred(pred)
                 terms == [b \in DOMAIN g |->
                              [k \in DOMAIN g[b] |->
                                  conf[b][k] * (p[b][k] - g[b][k]) * (p[b][k] - g[b][k])]]
             IN  [status |-> "returned",
                  criterion |-> <<[pred |-> p, gt |-> g]>>,
                  sum |-> SumSeq([b \in DOMAIN terms |-> SumSeq(terms[b])]),
                  mean_over |-> SumSeq([b \in DOMAIN terms |-> Len(terms[b])])]
        ELSE ZeroLoss

Abs(x) == IF x < 0 THEN -x ELSE x

\* lines 142-151; the criterion is L1Loss(), the mean of the absolute differences
vertices_loss(pred_vertices, gt_vertices, has_smpl) ==
    LET pred_vertices_with_shape == MaskRows(pred_vertices, has_smpl)
        gt_vertices_with_shape == MaskRows(gt_vertices, has_smpl)
    IN  IF Annotated(gt_vertices_with_shape)
        THEN [status |-> "returned",
              criterion |-> <<[pred |-> pred_vertices_with_shape,
                               gt |-> gt_vertices_with_shape]>>,
              sum |-> SumSeq([b \in DOMAIN gt_vertices_with_shape |->
                                Abs(pred_vertices_with_shape[b] - gt_vertices_with_shape[b])]),
              mean_over |-> Len(gt_vertices_with_shape)]
        ELSE ZeroLoss

\* a call of keypoint_3d_loss
Keypoint3dLoss ==
    /\ pc = "keypoint_3d_loss"
    /\ lossOut' = keypoint_3d_loss(lossIn.pred, lossIn.gt, lossIn.has)
    /\ pc' = "returned"
    /\ LossKeepsProg
    /\ SaveIdle

\* a call of vertices_loss
VerticesLoss ==
    /\ pc = "vertices_loss"
    /\ lossOut' = vertices_loss(lossIn.pred, lossIn.gt, lossIn.has)
    /\ pc' = "returned"
    /\ LossKeepsProg
    /\ SaveIdle

InitMasked ==
    /\ \E f \in {"keypoint_3d_loss", "vertices_loss"} :
          /\ ProgInit(f, Args(FALSE, 1), TRUE, 0, 0)
          /\ \E B \in 0..MaxSamples :
                IF f = "keypoint_3d_loss"
                THEN lossIn \in [fn : {f}, pred : [1..B -> PredPoses],
                                 gt : [1..B -> GtPoses], has : [1..B -> {0, 1}]]
                ELSE lossIn \in [fn : {f}, pred : [1..B -> Coords],
                                 gt : [1..B -> Coords], has : [1..B -> {0, 1}]]
    /\ num_trial = DefaultNumTrial
    /\ svRet = Undef
    /\ ckptDir = NoDir
    /\ ckptFiles = {}
    /\ lossOut = NoLoss

NextMasked ==
    \/ Keypoint3dLoss
    \/ VerticesLoss

SpecMasked == InitMasked /\ [][NextMasked]_vars

(***************************************************************************)
(* The total loss of an iteration of run.                                  *)
(*                                                                         *)
(* The loss is kept as the set of its terms, a term being a weight of args *)
(* and what it multiplies.  --joint_align, --vertex_align and              *)
(* --backbone_align have no type and no action: args holds False when the  *)
(* option is absent and the string that follows it otherwise.              *)
(***************************************************************************)
AbsentFalse == "False (default)"

AlignValues == {AbsentFalse, "'True'", "'False'", "''"}

\* what `if args.joint_align:' takes for true
Truthy(v) == v # AbsentFalse /\ v # "''"

DaModes == {"uda", "none"}

\* lines 301-304: the names the call of the model binds
DomainPredBound(da_mode) == da_mode = "uda"

Term(w, l) == [weight |-> w, of |-> l]

\* lines 347-357: a domain loss, or the exception of reading an unbound name
DomainLoss(align, da_mode, pred) ==
    IF ~Truthy(align) THEN "0"
    ELSE IF DomainPredBound(da_mode) THEN pred
    ELSE "UnboundLocalError"

\* lines 328-364
total_loss(a) ==
    LET loss_joint_domain == DomainLoss(a.joint_align, a.da_mode, "loss_da(joint_domain_pred)")
        loss_vertex_domain == DomainLoss(a.vertex_align, a.da_mode, "loss_da(vertex_domain_pred)")
        loss_backbone_domain ==
            DomainLoss(a.backbone_align, a.da_mode, "loss_da(backbone_domain_pred)")
    IN  IF "UnboundLocalError" \in {loss_joint_domain, loss_vertex_domain, loss_backbone_domain}
        THEN [status |-> "UnboundLocalError"]
        ELSE [status |-> "returned",
              loss |-> {Term("joints_loss_weight", "keypoint_3d_loss(pred_3d_joints)"),
                        Term("joints_loss_weight", "keypoint_3d_loss(pred_3d_joints_from_smpl)"),
                        Term("vertices_loss_weight", "loss_vertices"),
                        Term("vertices_loss_weight", "loss_2d_joints"),
                        Term("joint_domain_loss_weight", loss_joint_domain),
                        Term("vertex_domain_loss_weight", loss_vertex_domain),
                        Term("backbone_domain_loss_weight", loss_backbone_domain)}]

\* the losses of one iteration are computed and summed
TotalLoss ==
    /\ pc = "total_loss"
    /\ lossOut' = total_loss(lossIn)
    /\ pc' = IF lossOut'.status = "returned" THEN "returned" ELSE "raised"
    /\ LossKeepsProg
    /\ SaveIdle

InitTotalLoss ==
    /\ ProgInit("total_loss", Args(FALSE, 1), TRUE, 0, 1)
    /\ num_trial = DefaultNumTrial
    /\ svRet = Undef
    /\ ckptDir = NoDir
    /\ ckptFiles = {}
    /\ lossIn \in [fn : {"total_loss"}, da_mode : DaModes, joint_align : AlignValues,
                   vertex_align : AlignValues, backbone_align : AlignValues]
    /\ lossOut = NoLoss

SpecTotalLoss == InitTotalLoss /\ [][TotalLoss]_vars

(***************************************************************************)
(* main: the three transformer encoder blocks.                             *)
(*                                                                         *)
(* lossIn is args as parse_args returns it, lossOut.args is args as the    *)
(* loop has changed it and lossOut.trans_encoder the configurations of the *)
(* blocks built so far.                                                    *)
(***************************************************************************)
\* line 798
update_params == <<"num_hidden_layers", "hidden_size", "num_attention_heads",
                   "intermediate_size">>

\* config_class.from_pretrained(...): the configuration of bert-base-uncased
Pretrained ==
    [num_hidden_layers |-> 12, hidden_size |-> 768, num_attention_heads |-> 12,
     intermediate_size |-> 3072]

\* --hidden_feat_dim, default '1024,256,128'
hidden_feat_dim == <<1024, 256, 128>>

\* what the command line can give the four options; the first value of each
\* set is the default
CliValues ==
    [num_hidden_layers : {4, -1, 12}, hidden_size : {-1, 512, 768},
     num_attention_heads : {4, -1, 8}, intermediate_size : {-1, 2048, 3072},
     legacy_setting : {TRUE}]

\* lines 786-794: args.hidden_size and args.intermediate_size are assigned
ArgsOfBlock(a, i) ==
    [a EXCEPT !.hidden_size = hidden_feat_dim[i],
              !.intermediate_size = IF a.legacy_setting THEN -1
                                    ELSE hidden_feat_dim[i] * 4]

\* line 803
ShouldUpdate(arg_param, config_param) == arg_param > 0 /\ arg_param # config_param

\* lines 798-805
UpdatedConfig(a, config) ==
    [param \in {update_params[k] : k \in DOMAIN update_params} |->
        IF ShouldUpdate(a[param], config[param]) THEN a[param] ELSE config[param]]

\* lines 776-817: one turn of the loop that builds the blocks
BuildEncoder ==
    /\ pc = "build_encoders"
    /\ Len(lossOut.trans_encoder) < Len(hidden_feat_dim)
    /\ LET i == Len(lossOut.trans_encoder) + 1
           a == ArgsOfBlock(lossOut.args, i)
           config == UpdatedConfig(a, Pretrained)
       IN  IF config.hidden_size % config.num_attention_heads = 0
           THEN /\ lossOut' = [lossOut EXCEPT !.args = a,
                                   !.trans_encoder = Append(lossOut.trans_encoder, config)]
                /\ UNCHANGED pc
           ELSE /\ lossOut' = [lossOut EXCEPT !.args = a, !.status = "AssertionError"]
                /\ pc' = "raised"
    /\ LossKeepsProg
    /\ SaveIdle

\* the loop ends
EncodersBuilt ==
    /\ pc = "build_encoders"
    /\ Len(lossOut.trans_encoder) = Len(hidden_feat_dim)
    /\ lossOut' = [lossOut EXCEPT !.status = "returned"]
    /\ pc' = "returned"
    /\ LossKeepsProg
    /\ SaveIdle

InitEncoders ==
    /\ ProgInit("build_encoders", Args(FALSE, 1), TRUE, 0, 0)
    /\ num_trial = DefaultNumTrial
    /\ svRet = Undef
    /\ ckptDir = NoDir
    /\ ckptFiles = {}
    /\ lossIn \in CliValues
    /\ lossOut = [status |-> "building", args |-> lossIn, trans_encoder |-> <<>>]

NextEncoders ==
    \/ BuildEncoder
    \/ EncodersBuilt

SpecEncoders == InitEncoders /\ [][NextEncoders]_vars

(***************************************************************************)
(* A distributed run of run: one process per rank, all with a training     *)
(* loader of the same length.                                              *)
(*                                                                         *)
(* lossIn is what the ranks share, lossOut.ranks the state of each rank.   *)
(* A rank runs from one collective call to the next in one step.  A        *)
(* collective call returns, on every rank, when every rank has made the    *)
(* same call; the gradient synchronization of DistributedDataParallel in   *)
(* loss.backward is such a call.  Rank 1 of the model is rank 0 of the     *)
(* program.                                                                *)
(***************************************************************************)
\* is_main_process(): get_rank() == 0
IsMainProcess(r) == r = 1

\* what a rank measures on its part of the validation set; in one validation
\* the three errors of a rank have the same value
LocalMetrics == {0, 1}

\* lines 565-574: the all_gather calls of run_validate, in their order
Gathers == <<"mPVE", "mPJPE", "PAmPJPE", "count">>

\* line 431, on rank r
RankValidatesMainOnly(r, it, ipe) == ShouldValidate(it, ipe) /\ IsMainProcess(r)

RankValidates(r, it, ipe) == ShouldValidate(it, ipe)

DistIpe == ItersPerEpoch(lossIn.max_iter, lossIn.num_train_epochs)

\* the rank enters a collective call
Post(s, kind, v) ==
    [s EXCEPT !.pc = "wait", !.at = kind, !.posted = v,
              !.colls = Append(s.colls, [kind |-> kind, it |-> s.iteration])]

\* lines 463-473 on a rank: the last checkpoint
DistLastSave(r, s) ==
    IF lossIn.max_iter = 0
    THEN [s EXCEPT !.pc = "crashed"]
    ELSE [s EXCEPT !.pc = "done",
                   !.writes = IF IsMainProcess(r) THEN Append(s.writes, "checkpoint")
                              ELSE s.writes]

\* lines 236-379 on a rank: the next iteration up to loss.backward, or the
\* end of the loop
DistLoopTop(r, s) ==
    IF s.iteration < lossIn.max_iter
    THEN IF DistIpe = 0
         THEN [s EXCEPT !.pc = "crashed", !.iteration = s.iteration + 1]
         ELSE Post([s EXCEPT !.iteration = s.iteration + 1], "allreduce", 0)
    ELSE DistLastSave(r, s)

\* lines 379-438 on a rank: optimizer.step, the log and the image of the
\* main process, then run_validate up to its first all_gather, or the next
\* iteration
DistAfterBackward(r, s, v) ==
    LET logged == IF ShouldLog(s.iteration, DistIpe, lossIn.max_iter) /\ IsMainProcess(r)
                  THEN [s EXCEPT !.writes = Append(s.writes, "imwrite")]
                  ELSE s
    IN  IF RankValidates(r, s.iteration, DistIpe)
        THEN Post([logged EXCEPT !.local = v], Gathers[1], v)
        ELSE DistLoopTop(r, logged)

\* lines 456-460 on a rank, the metrics being sums over the ranks
DistDecision(r, s, val) ==
    LET saving == [s EXCEPT !.writes = IF IsMainProcess(r)
                                       THEN Append(s.writes, "checkpoint")
                                       ELSE s.writes]
        decided(saved, updated) ==
            [it |-> s.iteration, val |-> val, saved |-> saved, updated |-> updated]
    IN  IF Improved(val, s.best)
        THEN [saving EXCEPT !.best = EvalMetricsLoggerUpdate(val, EpochOf(s.iteration, DistIpe)),
                            !.decisions = s.decisions + 1, !.last = decided(TRUE, TRUE)]
        ELSE IF PeriodicSave(s.iteration, DistIpe)
        THEN [saving EXCEPT !.decisions = s.decisions + 1, !.last = decided(TRUE, FALSE)]
        ELSE [s EXCEPT !.decisions = s.decisions + 1, !.last = decided(FALSE, FALSE)]

\* lines 565-576 and 440-460 on a rank: an all_gather has returned
DistAfterGather(r, s) ==
    LET val == [s.val EXCEPT ![s.at] = SumSeq(s.got)] IN
    IF s.at = "mPVE" THEN Post([s EXCEPT !.val = val], "mPJPE", s.local)
    ELSE IF s.at = "mPJPE" THEN Post([s EXCEPT !.val = val], "PAmPJPE", s.local)
    ELSE IF s.at = "PAmPJPE" THEN Post([s EXCEPT !.val = val], "count", 1)
    ELSE DistLoopTop(r, DistDecision(r, [s EXCEPT !.val = val], val))

DistKeeps ==
    /\ UNCHANGED <<pc, args, mainProc, trainLoader, valLoader, max_iter, iters_per_epoch,
                   iteration, epoch, param_groups, mode, log_eval_metrics, vi, vret,
                   batchOf, predOf, reads, trace, lossIn>>
    /\ SaveIdle

\* rank r runs up to its next collective call or to its end
Advance(r) ==
    /\ pc = "distributed"
    /\ lossOut.ranks[r].pc \in {"start", "ready"}
    /\ \E v \in LocalMetrics :
          LET s == lossOut.ranks[r]
              t == IF s.pc = "start" THEN DistLoopTop(r, s)
                   ELSE IF s.at = "allreduce" THEN DistAfterBackward(r, s, v)
                   ELSE DistAfterGather(r, s)
          IN  lossOut' = [lossOut EXCEPT !.ranks[r] = t]
    /\ DistKeeps

\* every rank has made the same collective call: it returns on every rank,
\* with what each rank gave
Complete ==
    /\ pc = "distributed"
    /\ \A r \in DOMAIN lossOut.ranks :
          /\ lossOut.ranks[r].pc = "wait"
          /\ lossOut.ranks[r].at = lossOut.ranks[1].at
    /\ lossOut' = [lossOut EXCEPT !.ranks =
                      [r \in DOMAIN lossOut.ranks |->
                          [lossOut.ranks[r] EXCEPT
                              !.pc = "ready",
                              !.got = [q \in DOMAIN lossOut.ranks |->
                                          lossOut.ranks[q].posted]]]]
    /\ DistKeeps

InitDist ==
    /\ ProgInit("distributed", Args(FALSE, 1), TRUE, 0, 0)
    /\ num_trial = DefaultNumTrial
    /\ svRet = Undef
    /\ ckptDir = NoDir
    /\ ckptFiles = {}
    /\ lossIn \in [fn : {"distributed"}, world_size : 2..MaxWorld,
                   max_iter : 0..MaxDistIter, num_train_epochs : 1..MaxDistIter]
    /\ lossOut = [status |-> "running",
                  ranks |-> [r \in 1..lossIn.world_size |->
                      [pc |-> "start", at |-> "loop", iteration |-> 0, local |-> 0, posted |-> 0,
                       got |-> <<>>, colls |-> <<>>,
                       val |-> [mPVE |-> 0, mPJPE |-> 0, PAmPJPE |-> 0, count |-> 0],
                       best |-> [PAmPJPE |-> WorstMetric * lossIn.world_size,
                                 mPVE |-> WorstMetric * lossIn.world_size,
                                 mPJPE |-> WorstMetric * lossIn.world_size,
                                 epoch |-> 0],
                       decisions |-> 0,
                       last |-> [it |-> 0, val |-> [mPVE |-> 0, mPJPE |-> 0, PAmPJPE |-> 0,
                                                   count |-> 0],
                                 saved |-> FALSE, updated |-> FALSE],
                       writes |-> <<>>]]]

\* some rank runs
RankStep == \E r \in DOMAIN lossOut.ranks : Advance(r)

NextDist ==
    \/ RankStep
    \/ Complete

\* a process that can run does run
SpecDist == InitDist /\ [][NextDist]_vars /\ WF_vars(NextDist)

(***************************************************************************)
(* SpecSave: save_checkpoint called on its own, with any num_trial.        *)
(***************************************************************************)
InitSave ==
    /\ \E m \in BOOLEAN, ep \in 0..1, it \in 1..2 :
          /\ ProgInit("save_checkpoint", Args(FALSE, 1), m, ep, it)
    /\ num_trial \in 0..MaxNumTrial
    /\ svRet = Undef
    /\ ckptDir = NoDir
    /\ ckptFiles = {}
    /\ LossIdle

NextSave == SaveCheckpoint

SpecSave == InitSave /\ [][NextSave]_vars


(***************************************************************************)
(* Properties.                                                             *)
(***************************************************************************)
Positions(ev) == {k \in DOMAIN trace : trace[k].ev = ev}
Count(ev) == Cardinality(Positions(ev))
Has(ev) == Positions(ev) # {}
\* every ev2 has an ev1 before it
Before(ev1, ev2) == \A j \in Positions(ev2) : \E i \in Positions(ev1) : i < j
\* the directory save_checkpoint is to return for the current epoch and iteration
ExpectedDir == <<args.output_dir, "checkpoint", epoch, iteration>>

\* C1: on the main process save_checkpoint makes at most num_trial attempts,
\* makes no attempt after one whose writes all succeeded, returns (it never
\* leaves with the exception of a write), logs the failure only when each of
\* the num_trial attempts raised, and returns the checkpoint directory.
C1_BoundedRetry ==
    (pc = "returned" /\ mainProc) =>
        /\ Count("attempt") <= num_trial
        /\ Count("log_saved") <= 1
        /\ \A k \in Positions("log_saved") : \A a \in Positions("attempt") : a < k
        /\ Count("write_raised") = Count("attempt") - Count("log_saved")
        /\ Has("log_failed") =>
              /\ ~Has("log_saved")
              /\ Count("write_raised") = num_trial
              /\ Count("attempt") = num_trial
        /\ ~Has("log_saved") => Count("log_failed") = 1
        /\ trace[Len(trace)].ev = "save_return"
        /\ svRet = ExpectedDir

\* two attempts raised and the third saved the checkpoint
C1_Witness ==
    /\ pc = "returned"
    /\ mainProc
    /\ Count("write_raised") = 2
    /\ Has("log_saved")

TrainingOrder ==
    <<"forward", "loss", "optimizer.zero_grad", "loss.backward", "optimizer.step">>

\* C2: the events of an iteration are, in this order and once each, forward,
\* loss, optimizer.zero_grad, loss.backward, optimizer.step; the validation
\* and the checkpoint save of the iteration come after its optimizer.step;
\* where the next iteration starts, what the iteration started has ended.
C2_IterationOrder ==
    /\ \A k \in DOMAIN trace : trace[k].it = iteration
    /\ \A j \in DOMAIN TrainingOrder :
          /\ Count(TrainingOrder[j]) <= 1
          /\ j > 1 => Before(TrainingOrder[j - 1], TrainingOrder[j])
    /\ ~args.run_eval_only =>
          /\ Before("optimizer.step", "run_validate")
          /\ Before("optimizer.step", "save_checkpoint")
          /\ Before("run_validate", "val_forward")
          /\ Before("run_validate_end", "save_checkpoint")
    /\ (pc = "loop" /\ iteration >= 1) =>
          /\ Count("optimizer.step") = 1
          /\ Count("run_validate_end") = Count("run_validate")
          /\ Count("val_forward") = Count("run_validate") * valLoader
          /\ Before("save_checkpoint", "save_return")
          /\ Has("save_checkpoint") => Has("save_return")
    /\ pc = "forward" => ~Has("run_validate") /\ ~Has("save_checkpoint")

\* an iteration that validated and saved has ended and another one follows
C2_Witness ==
    /\ pc = "loop"
    /\ iteration < max_iter
    /\ Has("optimizer.step")
    /\ Has("run_validate_end")
    /\ Has("save_return")

\* C3: iters_per_epoch is the floor of len(train_dataloader) / num_train_epochs
\* and an iteration of run calls run_validate once if its number is a multiple
\* of iters_per_epoch and not at all otherwise.
C3_ValidateAtEpochEnd ==
    /\ (~args.run_eval_only /\ Has("run_validate")) =>
          /\ iters_per_epoch > 0
          /\ iteration % iters_per_epoch = 0
          /\ Count("run_validate") = 1
    /\ (pc = "loop" /\ iteration >= 1) =>
          /\ iters_per_epoch > 0
          /\ max_iter = trainLoader
          /\ iters_per_epoch * args.num_train_epochs <= trainLoader
          /\ trainLoader < (iters_per_epoch + 1) * args.num_train_epochs
          /\ Count("run_validate") = IF iteration % iters_per_epoch = 0 THEN 1 ELSE 0

\* the second iteration of an epoch of two iterations has validated
C3_Witness ==
    /\ pc = "loop"
    /\ iters_per_epoch = 2
    /\ iteration = 2
    /\ Count("run_validate") = 1

PostStepNames == {"annotations", "pred_vertices", "pred_camera", "pred_2d_joints_from_smpl"}

\* C4 as stated: no tensor of an iteration is read after the optimizer.step
\* of that iteration.
C4_NoReadAfterStep ==
    \A r \in reads : r.owner = r.at /\ ~r.post

\* C4: a read is of a tensor of the iteration that reads it; after the
\* optimizer.step of the iteration only visualize_mesh reads, in an iteration
\* that is a multiple of iters_per_epoch or the last one, and it reads the
\* annotations, the predicted vertices and camera and the projected joints.
C4_PostStepReads ==
    \A r \in reads :
        /\ r.owner = r.at
        /\ r.at <= iteration
        /\ r.post =>
              /\ r.where = "visualize_mesh"
              /\ r.name \in PostStepNames
              /\ iters_per_epoch > 0
              /\ r.at % iters_per_epoch = 0 \/ r.at = max_iter

\* visualize_mesh has read the predicted vertices after the step
C4_Witness ==
    \E r \in reads : r.post /\ r.name = "pred_vertices" /\ r.at = r.owner

\* C5: with run_eval_only no training loader is built, no optimizer exists
\* or steps, no checkpoint is saved and, when main is done, run_validate has
\* run once over the whole validation loader; without it both loaders are
\* built, run_eval_general is not entered and, when main is done, the loop
\* has consumed the training loader.
C5_EvalOnlyBranch ==
    /\ args.run_eval_only =>
          /\ trainLoader = NotBuilt
          /\ param_groups = <<>>
          /\ ~Has("optimizer.step") /\ ~Has("forward")
          /\ ~Has("save_checkpoint") /\ ~Has("last_save_checkpoint") /\ ~Has("mkdir")
          /\ svRet = Undef /\ ckptDir = NoDir /\ ckptFiles = {}
          /\ Count("run_validate") <= 1
          /\ pc = "done" =>
                /\ valLoader # NotBuilt
                /\ Count("run_validate") = 1
                /\ Count("run_validate_end") = 1
                /\ Count("val_forward") = valLoader
    /\ (~args.run_eval_only /\ pc # "main") =>
          /\ trainLoader # NotBuilt
          /\ valLoader # NotBuilt
          /\ pc # "run_eval_general"
          /\ vret # "run_eval_general"
          /\ pc = "done" => iteration = trainLoader /\ svRet # Undef

\* an evaluation-only run is done
C5_Witness ==
    /\ args.run_eval_only
    /\ pc = "done"
    /\ Count("val_forward") = MaxValLen

\* C6: a process that is not the main process has made no directory and
\* written no file, and a call of save_checkpoint that has just returned, on
\* any process, returned the directory of the epoch and iteration.
C6_OnlyMainWrites ==
    /\ ~mainProc =>
          /\ ckptDir = NoDir
          /\ ckptFiles = {}
          /\ ~Has("mkdir") /\ ~Has("attempt") /\ ~Has("imwrite")
          /\ \A k \in DOMAIN Writes : ~Has(Writes[k])
    /\ Has("save_return") => svRet = ExpectedDir

\* a process that is not the main process went through the last save
C6_Witness ==
    /\ ~mainProc
    /\ pc = "done"
    /\ Has("save_return")
    /\ svRet = ExpectedDir

LrFollowsSchedule ==
    (param_groups # <<>> /\ iteration >= 1 /\ pc # "crashed") =>
        /\ iters_per_epoch > 0
        /\ epoch * iters_per_epoch <= iteration
        /\ iteration < (epoch + 1) * iters_per_epoch
        /\ \A g \in DOMAIN param_groups :
              \E k \in 0..(2 * epoch) :
                 /\ k * args.num_train_epochs <= 2 * epoch
                 /\ 2 * epoch < (k + 1) * args.num_train_epochs
                 /\ param_groups[g] * Pow10(k) = args.lr

LrNeverGrows ==
    \A g \in DOMAIN param_groups :
        g \in DOMAIN param_groups' => param_groups'[g] <= param_groups[g]

\* C7: in every iteration the rate of every parameter group is
\* args.lr * 0.1^k with k the floor of epoch / (num_train_epochs / 2) and epoch
\* the floor of iteration / iters_per_epoch, and no step raises a rate (k
\* never decreases).
C7_LrSchedule == []LrFollowsSchedule /\ [][LrNeverGrows]_vars

\* two half-schedules have elapsed
C7_Witness ==
    /\ param_groups # <<>>
    /\ pc = "forward"
    /\ param_groups[1] * 100 = args.lr

\* C8: loss_da returns a loss for an even batch only; then the elements of
\* the first half have the target 0, those of the second half the target 1,
\* every element is written by one of the two assignments, and there are as
\* many of one label as of the other; for an odd batch it raises.
C8_HalvesLabelled ==
    LET B == Len(lossIn.outputs) IN
    /\ pc = "returned" =>
          /\ B % 2 = 0
          /\ lossOut.status = "returned"
          /\ DOMAIN lossOut.targets = 1..B
          /\ \A i \in 1..B :
                /\ 2 * i <= B => lossOut.targets[i] = 0
                /\ 2 * i > B => lossOut.targets[i] = 1
                /\ lossOut.labelled[i] = 1
                /\ lossOut.terms[i].target = lossOut.targets[i]
          /\ Cardinality({i \in 1..B : lossOut.targets[i] = 0})
               = Cardinality({i \in 1..B : lossOut.targets[i] = 1})
    /\ pc = "raised" => B % 2 = 1 /\ lossOut = [status |-> "AssertionError"]
    /\ (pc # "loss_da" /\ B % 2 = 1) => pc = "raised"

\* a batch of two was labelled
C8_Witness ==
    /\ pc = "returned"
    /\ Len(lossIn.outputs) = 2
    /\ lossOut.targets = <<0, 1>>

\* C9 as stated: the progress of an iteration is logged if and only if the
\* iteration is a multiple of args.logging_steps (or the last one).
C9_LoggedEveryLoggingSteps ==
    pc = "validate?" =>
        (Has("log_progress") <=>
            (iteration % args.logging_steps = 0 \/ iteration = max_iter))

\* C10 as stated: a joint of confidence 0 and a joint of a sample whose
\* has_pose_2d is 0 add nothing to the loss.
C10_OnlyAnnotated ==
    pc = "returned" =>
        \A b \in DOMAIN lossOut.terms : \A k \in DOMAIN lossOut.terms[b] :
            /\ lossIn.gt[b][k].conf = 0 => lossOut.terms[b][k] = 0
            /\ lossIn.has_pose_2d[b] = 0 => lossOut.terms[b][k] = 0


PositionsIn(t, ev) == {k \in DOMAIN t : t[k].ev = ev}
\* the metrics the validation that has just returned to run has logged
LoggedMetrics(t) == t[CHOOSE k \in PositionsIn(t, "log_validation") : TRUE].arg

ValidationReturnsToRun == pc = "val_loop" /\ pc' = "loop"

CheckpointDecision ==
    ValidationReturnsToRun =>
        LET m == LoggedMetrics(trace')
            better == \/ m.PAmPJPE < log_eval_metrics.PAmPJPE
                      \/ m.mPVE < log_eval_metrics.mPVE
                      \/ m.mPJPE < log_eval_metrics.mPJPE
            fifth == iteration % (5 * iters_per_epoch) = 0
            calls == PositionsIn(trace', "save_checkpoint")
            updates == PositionsIn(trace', "log_eval_metrics.update")
        IN  /\ Cardinality(PositionsIn(trace', "log_validation")) = 1
            /\ Cardinality(calls) = IF better \/ fifth THEN 1 ELSE 0
            /\ Cardinality(updates) = IF better THEN 1 ELSE 0
            /\ \A u \in updates : \E r \in PositionsIn(trace', "save_return") : r < u
            /\ better => /\ log_eval_metrics'.PAmPJPE = m.PAmPJPE
                         /\ log_eval_metrics'.mPVE = m.mPVE
                         /\ log_eval_metrics'.mPJPE = m.mPJPE
                         /\ log_eval_metrics'.epoch = epoch
            /\ ~better => log_eval_metrics' = log_eval_metrics

MetricsKept ==
    (~ValidationReturnsToRun /\ pc # "run") => log_eval_metrics' = log_eval_metrics

\* C13: when a validation returns to run, save_checkpoint is called if and
\* only if a metric is lower than the recorded one or the iteration is a
\* multiple of 5 * iters_per_epoch; log_eval_metrics is updated, after the
\* save, in the first case only; no other step of an iteration changes it and
\* an iteration that has not validated has no update.
C13_CheckpointDecision ==
    /\ [][CheckpointDecision /\ MetricsKept]_vars
    /\ [](Has("log_eval_metrics.update") => Has("run_validate_end"))

\* a validation without a better metric saved in a fifth epoch
C13_Witness ==
    /\ pc = "loop"
    /\ Has("run_validate_end")
    /\ Has("save_checkpoint")
    /\ ~Has("log_eval_metrics.update")


\* the event at position k of the trace is ev and the one before it is prev
Follows(k, ev, prev) == trace[k].ev = ev => (k > 1 /\ trace[k - 1].ev = prev)

\* C14: a write of model.bin comes right after the start of an attempt, one
\* of state_dict.bin right after that of model.bin, one of training_args.bin
\* right after that of state_dict.bin and the message 'Save checkpoint to'
\* right after that of training_args.bin, when the directory holds the three
\* files; after a write has raised comes a new attempt or the failure
\* message, so a retry starts with model.bin again.
C14_WholeCheckpointLogged ==
    /\ \A k \in DOMAIN trace :
          /\ Follows(k, "model.bin", "attempt")
          /\ Follows(k, "state_dict.bin", "model.bin")
          /\ Follows(k, "training_args.bin", "state_dict.bin")
          /\ Follows(k, "log_saved", "training_args.bin")
          /\ Follows(k, "attempt", "mkdir") \/ Follows(k, "attempt", "write_raised")
          /\ trace[k].ev = "attempt" => k > 1
          /\ Follows(k, "log_failed", "write_raised") \/ Follows(k, "log_failed", "mkdir")
          /\ trace[k].ev = "log_failed" => k > 1
    /\ Has("log_saved") =>
          {"model.bin", "state_dict.bin", "training_args.bin"} \subseteq ckptFiles

\* an attempt wrote model.bin and raised, and the next one saved the checkpoint
C14_Witness ==
    /\ pc = "returned"
    /\ Count("model.bin") = 2
    /\ Count("state_dict.bin") = 1
    /\ Has("log_saved")


\* C15: when run is done, after the loop has consumed the training loader,
\* save_checkpoint has been called once since the loop ended, with the epoch
\* and the iteration of the last iteration, and has returned before the best
\* results were logged; before that call nothing of it has happened.
C15_LastCheckpoint ==
    /\ (pc = "done" /\ ~args.run_eval_only) =>
          /\ iteration = trainLoader /\ iteration >= 1
          /\ epoch * iters_per_epoch <= iteration
          /\ iteration < (epoch + 1) * iters_per_epoch
          /\ Count("last_save_checkpoint") = 1
          /\ Count("save_return") = 1
          /\ Count("log_best") = 1
          /\ Before("last_save_checkpoint", "save_return")
          /\ Before("save_return", "log_best")
          /\ trace[Len(trace)].ev = "log_best"
          /\ svRet = ExpectedDir
          /\ mainProc => ckptDir = ExpectedDir
    /\ pc = "last_save" =>
          /\ iteration = trainLoader
          /\ ~Has("last_save_checkpoint") /\ ~Has("save_return") /\ ~Has("log_best")
    /\ Has("log_best") => pc = "done"

\* run is done and its last iteration, the first of its epoch, had saved a
\* checkpoint of better metrics
C15_Witness ==
    /\ pc = "done"
    /\ ~args.run_eval_only
    /\ epoch >= 1
    /\ iteration = epoch * iters_per_epoch
    /\ log_eval_metrics.epoch = epoch
    /\ Count("last_save_checkpoint") = 1


\* C16: a forward pass of the training loop finds the model in training
\* mode, also in the iteration after a validation, and a forward pass of
\* run_validate finds it in evaluation mode.
C16_ModeOfForward ==
    /\ \A k \in DOMAIN trace :
          /\ trace[k].ev = "forward" => trace[k].mode = "train"
          /\ trace[k].ev = "val_forward" => trace[k].mode = "eval"
    /\ pc = "forward" => mode = "train"
    /\ pc = "val_loop" => mode = "eval"

\* the forward pass of the iteration after a validation
C16_Witness ==
    /\ iters_per_epoch = 1
    /\ iteration = 2
    /\ pc = "loss"
    /\ \E k \in DOMAIN trace : trace[k].ev = "forward" /\ trace[k].mode = "train"


\* the samples of the batch whose flag is 1
Flagged == {b \in DOMAIN lossIn.has : lossIn.has[b] = 1}
\* the sample at row i of a masked tensor
SampleOfRow(i) ==
    CHOOSE b \in Flagged : Cardinality({c \in Flagged : c <= b}) = i

\* C11: keypoint_3d_loss and vertices_loss return the zero loss and do not
\* call the criterion when no sample has the flag 1; otherwise they call it
\* once, with one row for each sample whose flag is 1, and the rows of the
\* prediction and of the ground truth at the same place are of the same sample.
C11_MaskedLoss ==
    pc = "returned" =>
        /\ Flagged = {} =>
              /\ lossOut.criterion = <<>>
              /\ lossOut.sum = 0
        /\ Flagged # {} =>
              /\ Len(lossOut.criterion) = 1
              /\ LET call == lossOut.criterion[1] IN
                 /\ Len(call.pred) = Cardinality(Flagged)
                 /\ Len(call.gt) = Cardinality(Flagged)
                 /\ \A i \in 1..Cardinality(Flagged) :
                       LET b == SampleOfRow(i) IN
                       IF lossIn.fn = "vertices_loss"
                       THEN /\ call.pred[i] = lossIn.pred[b]
                            /\ call.gt[i] = lossIn.gt[b]
                       ELSE \A k \in 1..4 :
                            /\ call.pred[i][k] - call.pred[i][1]
                                 = lossIn.pred[b][k] - lossIn.pred[b][1]
                            /\ call.gt[i][k] - call.gt[i][1]
                                 = lossIn.gt[b][k].x - lossIn.gt[b][1].x

\* of two samples the second only has the flag 1 and the criterion got it
C11_Witness ==
    /\ pc = "returned"
    /\ lossIn.fn = "keypoint_3d_loss"
    /\ lossIn.has = <<0, 1>>
    /\ lossIn.pred[1] # lossIn.pred[2]
    /\ Len(lossOut.criterion) = 1


\* the domain term of the loss for a flag: loss_da of the prediction when the
\* flag holds a true value, 0 otherwise
DomainTerm(w, align, pred) ==
    [weight |-> w, of |-> IF align \in {AbsentFalse, "''"} THEN "0" ELSE pred]

\* C17 as stated: the iteration has a total loss, and it is the sum of the
\* two 3D joint losses weighted by joints_loss_weight, of the vertex loss and
\* the 2D joint loss weighted by vertices_loss_weight and of the three domain
\* terms, each loss_da of its prediction when its flag is on and 0 otherwise.
C17_TotalLoss ==
    pc # "total_loss" =>
        /\ lossOut.status = "returned"
        /\ lossOut.loss =
              {[weight |-> "joints_loss_weight", of |-> "keypoint_3d_loss(pred_3d_joints)"],
               [weight |-> "joints_loss_weight",
                of |-> "keypoint_3d_loss(pred_3d_joints_from_smpl)"],
               [weight |-> "vertices_loss_weight", of |-> "loss_vertices"],
               [weight |-> "vertices_loss_weight", of |-> "loss_2d_joints"],
               DomainTerm("joint_domain_loss_weight", lossIn.joint_align,
                          "loss_da(joint_domain_pred)"),
               DomainTerm("vertex_domain_loss_weight", lossIn.vertex_align,
                          "loss_da(vertex_domain_pred)"),
               DomainTerm("backbone_domain_loss_weight", lossIn.backbone_align,
                          "loss_da(backbone_domain_pred)")}


\* C12 as stated: in every block that is built, each of the four options
\* whose value on the command line is positive and is not the pretrained
\* value has the value of the command line.
C12_CliReplacesConfig ==
    \A i \in DOMAIN lossOut.trans_encoder :
        \A param \in {"num_hidden_layers", "hidden_size", "num_attention_heads",
                      "intermediate_size"} :
            (lossIn[param] > 0 /\ lossIn[param] # Pretrained[param]) =>
                lossOut.trans_encoder[i][param] = lossIn[param]


DistRanks == DOMAIN lossOut.ranks
Rank(r) == lossOut.ranks[r]
IsPrefix(a, b) == Len(a) <= Len(b) /\ SubSeq(b, 1, Len(a)) = a
\* the all_gather calls among the collective calls of a rank
GatherCalls(r) == SelectSeq(Rank(r).colls, LAMBDA c : c.kind # "allreduce")

\* the collective calls of two ranks are the same calls, of the same
\* iterations, in the same order, as far as both have come
SameCollectives ==
    \A r, q \in DistRanks :
        IsPrefix(Rank(r).colls, Rank(q).colls) \/ IsPrefix(Rank(q).colls, Rank(r).colls)

\* the all_gather calls of a rank are those of whole validations, four each,
\* in the order of run_validate, made in iterations that end an epoch
GathersOfValidations ==
    \A r \in DistRanks :
        LET g == GatherCalls(r) IN
        /\ \A k \in DOMAIN g :
              /\ g[k].kind = Gathers[((k - 1) % 4) + 1]
              /\ g[k].it = g[k - ((k - 1) % 4)].it
              /\ g[k].it % DistIpe = 0
        /\ Rank(r).pc \in {"done", "start"} => Len(g) = 4 * Rank(r).decisions

\* no rank but the main one writes an image or a checkpoint
OnlyMainRankWrites ==
    \A r \in DistRanks : r # 1 => Rank(r).writes = <<>>

\* two ranks that have validated as often have the same metrics, have taken
\* the same decision and record the same best metrics
SameDecisions ==
    \A r, q \in DistRanks :
        Rank(r).decisions = Rank(q).decisions =>
            /\ Rank(r).last = Rank(q).last
            /\ Rank(r).best = Rank(q).best

AllRanksEnded ==
    \/ \A r \in DistRanks : Rank(r).pc = "done"
    \/ \A r \in DistRanks : Rank(r).pc = "crashed"

\* C18: with training loaders of one length the ranks make the same
\* collective calls in the same order, the all_gather calls being those of
\* run_validate in the iterations that end an epoch; what only the main
\* process does is no collective call; the ranks get the same metrics and
\* take the same checkpoint decision; and every rank comes to its end, so
\* none waits for ever in a collective call.
C18_RanksAgree ==
    /\ [](SameCollectives /\ GathersOfValidations /\ OnlyMainRankWrites /\ SameDecisions)
    /\ <>[]AllRanksEnded

\* two ranks have ended after two validations, the last of which saved
C18_Witness ==
    /\ pc = "distributed"
    /\ \A r \in DistRanks : Rank(r).pc = "done" /\ Rank(r).decisions = 2
    /\ Rank(1).last.saved
    /\ Len(Rank(1).writes) >= 3
    /\ Len(GatherCalls(2)) = 8

====
